---- MODULE Spec2Model ----
(***************************************************************************)
(* Model of the db-backup-operator: the four kopf handlers of              *)
(* operator/handlers.py (on-create, on-update, on-delete, timer), the      *)
(* manifest builder of operator/templates.py and the defaults of           *)
(* operator/config.py, running against a cluster that stores DatabaseBackup*)
(* resources and CronJobs.                                                 *)
(*                                                                         *)
(* The cluster API is modelled at the interface the handlers use: a call   *)
(* either takes effect atomically or raises ApiException (404 / 409 / 5xx).*)
(* The kopf framework is modelled by its documented reaction to a handler  *)
(* outcome: a return value or a PermanentError ends the handling of the    *)
(* event, a TemporaryError re-invokes the handler after the given delay.   *)
(***************************************************************************)
EXTENDS Integers, Sequences, FiniteSets, TLC

VARIABLES backups, cronjobs, handlers, inflight, uids, apiDown,
          config, environ, startup, raised, remote

\* the controller process: the global _config of operator/config.py, the
\* environment from_env reads, the state of kopf's startup activity, and the
\* exception the last get_config / set_config call raised ("" for none)
process == <<config, environ, startup, raised>>

\* remote: the objects under each upload target of the storage backend, each
\* identified by its modification time

vars == <<backups, cronjobs, handlers, inflight, uids, apiDown, process, remote>>

(***************************************************************************)
(* Bounds of the model                                                     *)
(***************************************************************************)
\* incarnations of one DatabaseBackup name (delete and create again)
MaxGen == 2
\* retry counter saturates here (kopf's `retry` kwarg is unbounded)
MaxRetry == 2
\* last-schedule timestamps the platform scheduler may record
MaxTime == 2

\* modification times of the objects in the remote storage
MaxStamp == 5
\* largest retention.keepLast a user submits
MaxKeep == 4

\* concurrencyPolicy 'Forbid': the platform starts no run of a CronJob while
\* one is active
MaxActive == 1

\* the DatabaseBackup resources the environment may create
Resources == {[namespace |-> "prod", name |-> "orders-db"]}

(***************************************************************************)
(* Python dict helpers                                                     *)
(***************************************************************************)
\* d.get(k, default)
Get(d, k, default) == IF k \in DOMAIN d THEN d[k] ELSE default

\* d[k] = v on a dict (merge of one key)
Put(d, k, v) == [j \in DOMAIN d \cup {k} |-> IF j = k THEN v ELSE d[j]]

Min(a, b) == IF a < b THEN a ELSE b

EmptyDict == [k \in {} |-> 0]

\* the dicts with key k absent or bound to one of vals
Optional(k, vals) == {EmptyDict} \cup {[j \in {k} |-> v] : v \in vals}

(***************************************************************************)
(* operator/config.py : defaults of the configuration singleton            *)
(***************************************************************************)
SupportedDatabaseTypes == {"postgres", "mysql", "mongodb"}

DatabaseImages ==
    [postgres |-> "postgres:15-alpine", mysql |-> "mysql:8.0", mongodb |-> "mongo:7.0"]

SupportedStorageTypes == {"s3", "gcs", "azure"}

DefaultRegions == [s3 |-> "us-east-1", gcs |-> "us-central1", azure |-> "eastus"]

DefaultSchedule == "0 2 * * *"

DefaultRetentionDays == 7

SuccessfulJobsHistoryLimit == 3

FailedJobsHistoryLimit == 1

BackupTimeoutSeconds == 3600

OperatorName == "db-backup-operator"

OperatorVersion == "0.1.0"

ReconciliationInterval == 300

\* OperatorConfig(): the dataclass with its defaults
OperatorConfig ==
    [name     |-> OperatorName,
     version  |-> OperatorVersion,
     database |-> [supported_types |-> SupportedDatabaseTypes, images |-> DatabaseImages],
     storage  |-> [supported_types |-> SupportedStorageTypes,
                   default_regions |-> DefaultRegions],
     backup   |-> [default_schedule |-> DefaultSchedule,
                   default_retention_days |-> DefaultRetentionDays,
                   successful_jobs_history_limit |-> SuccessfulJobsHistoryLimit,
                   failed_jobs_history_limit |-> FailedJobsHistoryLimit,
                   backup_timeout_seconds |-> BackupTimeoutSeconds],
     reconciliation_interval |-> ReconciliationInterval]

\* _config = None
None == [none |-> TRUE]

\* int(s) for the strings int() accepts; any other string raises ValueError
IntLiterals == ("-1" :> (0 - 1)) @@ ("0" :> 0) @@ ("1" :> 1) @@ ("30" :> 30)

\* os.getenv(key) is set and not empty (the walrus tests of from_env)
EnvSet(env, key) == key \in DOMAIN env /\ env[key] # ""

\* OperatorConfig.from_env()
from_env(env) ==
    [OperatorConfig EXCEPT
        !.backup.default_schedule =
            IF EnvSet(env, "DEFAULT_BACKUP_SCHEDULE")
            THEN env["DEFAULT_BACKUP_SCHEDULE"] ELSE @,
        !.backup.default_retention_days =
            IF EnvSet(env, "DEFAULT_RETENTION_DAYS")
               /\ env["DEFAULT_RETENTION_DAYS"] \in DOMAIN IntLiterals
            THEN IntLiterals[env["DEFAULT_RETENTION_DAYS"]] ELSE @]

NoError == ""

\* OperatorConfig.validate(): the message of the ValueError raised, or NoError
validate(c) ==
    IF c.reconciliation_interval < 60
    THEN "Reconciliation interval must be at least 60 seconds"
    ELSE IF c.backup.default_retention_days < 1
    THEN "Retention days must be at least 1"
    ELSE IF c.backup.backup_timeout_seconds < 60
    THEN "Backup timeout must be at least 60 seconds"
    ELSE NoError

\* get_config(): installs from_env() on first use, validates it after the
\* assignment, and returns the global (config' is the value returned unless
\* the call raised)
get_config ==
    IF config = None
    THEN /\ config' = from_env(environ)
         /\ raised' = validate(from_env(environ))
    ELSE /\ config' = config
         /\ raised' = NoError

\* a set_config that assigns before it validates, as get_config does
set_config_installs_first(c) ==
    /\ raised' = validate(c)
    /\ config' = c

\* set_config(c): validates, then installs
set_config(c) ==
    IF validate(c) # NoError
    THEN /\ raised' = validate(c)
         /\ config' = config
    ELSE /\ raised' = NoError
         /\ config' = c

get_database_image(db_type) ==
    Get(config.database.images, db_type, config.database.images["postgres"])

get_default_region(storage_type) ==
    Get(config.storage.default_regions, storage_type, "us-east-1")

is_database_supported(db_type) == db_type \in config.database.supported_types

is_storage_supported(storage_type) == storage_type \in config.storage.supported_types

(***************************************************************************)
(* operator/handlers.py : _validate_spec                                   *)
(***************************************************************************)
ValidationPassed == "Spec validation passed"

\* a validation that checks the required fields but not the types
validate_spec_fields_only(database, storage) ==
    IF Get(database, "host", "") = "" THEN "Database host is required"
    ELSE IF Get(database, "name", "") = "" THEN "Database name is required"
    ELSE IF Get(storage, "bucket", "") = "" THEN "Storage bucket is required"
    ELSE ValidationPassed

\* a validation that takes an empty string for a value
validate_spec_absent_only(database, storage) ==
    IF ~is_database_supported(database["type"]) THEN "Unsupported database type"
    ELSE IF ~is_storage_supported(storage["type"]) THEN "Unsupported storage type"
    ELSE IF "host" \notin DOMAIN database THEN "Database host is required"
    ELSE IF "name" \notin DOMAIN database THEN "Database name is required"
    ELSE IF "bucket" \notin DOMAIN storage THEN "Storage bucket is required"
    ELSE ValidationPassed

\* the message of the kopf.PermanentError raised, or ValidationPassed
validate_spec(database, storage) ==
    IF ~is_database_supported(database["type"]) THEN "Unsupported database type"
    ELSE IF ~is_storage_supported(storage["type"]) THEN "Unsupported storage type"
    ELSE IF Get(database, "host", "") = "" THEN "Database host is required"
    ELSE IF Get(database, "name", "") = "" THEN "Database name is required"
    ELSE IF Get(storage, "bucket", "") = "" THEN "Storage bucket is required"
    ELSE ValidationPassed

(***************************************************************************)
(* operator/templates.py : ManifestTemplates                               *)
(***************************************************************************)
BackupTimestamp == "/backup/backup-$(date +%Y%m%d-%H%M%S)"

\* get_backup_commands()[key].format(host=host, database=database)
backup_command(key, host, database) ==
    IF key = "postgres"
    THEN "pg_dump -h " \o host \o " -U $DB_USER -d " \o database
         \o " | gzip > " \o BackupTimestamp \o ".sql.gz"
    ELSE IF key = "mysql"
    THEN "mysqldump -h " \o host \o " -u $DB_USER -p$DB_PASSWORD " \o database
         \o " | gzip > " \o BackupTimestamp \o ".sql.gz"
    ELSE "mongodump --host " \o host \o " --db " \o database
         \o " --archive=" \o BackupTimestamp \o ".archive --gzip"

BackupCommandKeys == {"postgres", "mysql", "mongodb"}

\* the file the backup command writes
backup_file(key) ==
    IF key \in {"postgres", "mysql"}
    THEN BackupTimestamp \o ".sql.gz"
    ELSE BackupTimestamp \o ".archive"

\* the files the glob /backup/*.gz of the upload command matches
UploadGlob == {BackupTimestamp \o ".sql.gz"}

\* an upload command that passes keepLast itself to tail
get_upload_command_tail_n(bucket, namespace, name, retention) ==
    [target   |-> "s3://" \o bucket \o "/" \o namespace \o "/" \o name \o "/",
     listing  |-> "sort -r",
     tailFrom |-> retention]

\* the copy target and the `tail -n +K` argument of the retention pipeline
get_upload_command(bucket, namespace, name, retention) ==
    [target   |-> "s3://" \o bucket \o "/" \o namespace \o "/" \o name \o "/",
     listing  |-> "sort -r",
     tailFrom |-> retention + 1]

Max(S) == CHOOSE m \in S : \A n \in S : n <= m

\* `aws s3 ls | sort -r`: the lines start with the modification time, so the
\* listing comes out newest first
RECURSIVE SortReverse(_)
SortReverse(S) ==
    IF S = {} THEN <<>> ELSE <<Max(S)>> \o SortReverse(S \ {Max(S)})

\* `tail -n +K`: the lines from the K-th on (+0 and +1 give every line)
TailFrom(lines, k) == IF k <= 1 THEN lines ELSE SubSeq(lines, k, Len(lines))

\* the objects `xargs aws s3 rm` is run on
CleanupSelection(listing, upload_cmd) ==
    LET lines == TailFrom(SortReverse(listing), upload_cmd.tailFrom)
    IN  {lines[j] : j \in DOMAIN lines}

SecretKeyRef(var, secret, key) ==
    [name |-> var, valueFrom |-> [secretKeyRef |-> [name |-> secret, key |-> key]]]

\* an environment with the password reference for every engine
get_container_env_with_password(db_type, db_creds_secret, storage_creds_secret, storage_region) ==
    << SecretKeyRef("DB_USER", db_creds_secret, "username"),
       SecretKeyRef("DB_PASSWORD", db_creds_secret, "password"),
       SecretKeyRef("AWS_ACCESS_KEY_ID", storage_creds_secret, "access-key"),
       SecretKeyRef("AWS_SECRET_ACCESS_KEY", storage_creds_secret, "secret-key"),
       [name |-> "AWS_DEFAULT_REGION", value |-> storage_region] >>

get_container_env(db_type, db_creds_secret, storage_creds_secret, storage_region) ==
    LET env_vars == << SecretKeyRef("DB_USER", db_creds_secret, "username"),
                       SecretKeyRef("AWS_ACCESS_KEY_ID", storage_creds_secret, "access-key"),
                       SecretKeyRef("AWS_SECRET_ACCESS_KEY", storage_creds_secret, "secret-key"),
                       [name |-> "AWS_DEFAULT_REGION", value |-> storage_region] >>
    IN  IF db_type \in {"postgres", "mysql"}
        THEN <<env_vars[1]>>
             \o <<SecretKeyRef("DB_PASSWORD", db_creds_secret, "password")>>
             \o SubSeq(env_vars, 2, 4)
        ELSE env_vars

\* a manifest that names the CronJob after the resource alone
cronjob_metadata_plain_name(name, namespace) ==
    [name      |-> name,
     namespace |-> namespace,
     labels    |-> [app |-> "database-backup",
                    backupName |-> name,
                    managedBy |-> config.name,
                    version |-> config.version]]

\* a manifest that numbers the CronJobs it has built
cronjob_metadata_numbered(name, namespace) ==
    [name      |-> name \o "-backup",
     namespace |-> namespace,
     labels    |-> [app |-> "database-backup",
                    backupName |-> name,
                    managedBy |-> config.name,
                    version |-> config.version,
                    serial |-> Cardinality(DOMAIN cronjobs)]]

\* the 'metadata' block of the manifest
cronjob_metadata(name, namespace) ==
    [name      |-> name \o "-backup",
     namespace |-> namespace,
     labels    |-> [app |-> "database-backup",
                    backupName |-> name,
                    managedBy |-> config.name,
                    version |-> config.version]]

cronjob_manifest(name, namespace, schedule, database, storage, retention) ==
    LET db_type == database["type"]
        db_host == database["host"]
        db_name == database["name"]
        db_creds_secret == Get(database, "credentialsSecret", name \o "-db-creds")
        storage_bucket == storage["bucket"]
        storage_region == Get(storage, "region", get_default_region(storage["type"]))
        storage_creds_secret == Get(storage, "credentialsSecret", name \o "-storage-creds")
        backup_key == IF db_type \in BackupCommandKeys THEN db_type ELSE "postgres"
        backup_cmd == backup_command(backup_key, db_host, db_name)
        upload_cmd == get_upload_command(storage_bucket, namespace, name, retention)
    IN  [apiVersion |-> "batch/v1",
         kind       |-> "CronJob",
         metadata   |-> cronjob_metadata(name, namespace),
         spec       |-> [schedule |-> schedule,
                         successfulJobsHistoryLimit |->
                             config.backup.successful_jobs_history_limit,
                         failedJobsHistoryLimit |-> config.backup.failed_jobs_history_limit,
                         concurrencyPolicy |-> "Forbid",
                         activeDeadlineSeconds |-> config.backup.backup_timeout_seconds,
                         image |-> get_database_image(db_type),
                         args  |-> [backup |-> backup_cmd, file |-> backup_file(backup_key),
                                    upload |-> upload_cmd],
                         env   |-> get_container_env(db_type, db_creds_secret,
                                                     storage_creds_secret, storage_region)]]

(***************************************************************************)
(* The DatabaseBackup specs users submit                                   *)
(***************************************************************************)
SpecOrders ==
    [schedule  |-> "0 3 * * *",
     database  |-> [type |-> "postgres", host |-> "db.internal", name |-> "orders"],
     storage   |-> [type |-> "s3", bucket |-> "backups"],
     retention |-> [keepLast |-> 5]]

SpecMongo ==
    [database |-> [type |-> "mongodb", host |-> "mongo.internal", name |-> "events",
                   credentialsSecret |-> "mongo-creds"],
     storage  |-> [type |-> "gcs", bucket |-> "archive", region |-> "europe-west1"]]

SpecRedis ==
    [database |-> [type |-> "redis", host |-> "cache.internal", name |-> "cache"],
     storage  |-> [type |-> "s3", bucket |-> "backups"]]

SpecNoHost ==
    [database |-> [type |-> "mysql", host |-> "", name |-> "shop"],
     storage  |-> [type |-> "azure", bucket |-> "backups"]]

SpecValues == {SpecOrders, SpecMongo, SpecRedis, SpecNoHost}

(***************************************************************************)
(* Cluster API (kubernetes.client.BatchV1Api) as the handlers see it       *)
(***************************************************************************)
NoTime == 0

JobKey(namespace, name) == <<namespace, name>>

Remove(d, k) == [j \in DOMAIN d \ {k} |-> d[j]]

\* str(e) of the ApiException raised for a status code
ApiStr(code) ==
    IF code = 404 THEN "(404) Reason: Not Found"
    ELSE IF code = 409 THEN "(409) Reason: Conflict"
    ELSE "(500) Reason: Internal Server Error"

\* the status code create_namespaced_cron_job answers with
CreateCode(key) ==
    IF apiDown THEN 500 ELSE IF key \in DOMAIN cronjobs THEN 409 ELSE 201

\* the status code delete_namespaced_cron_job answers with
DeleteCode(key) ==
    IF apiDown THEN 500 ELSE IF key \in DOMAIN cronjobs THEN 200 ELSE 404

\* the status code read_namespaced_cron_job answers with
ReadCode(key) ==
    IF apiDown THEN 500 ELSE IF key \in DOMAIN cronjobs THEN 200 ELSE 404

\* the object the API server stores for a created body
Stored(body) == [metadata |-> body.metadata,
                 spec     |-> body.spec,
                 status   |-> [lastScheduleTime |-> NoTime, active |-> <<>>]]

(***************************************************************************)
(* kopf: ownership and the reaction to a handler's outcome                 *)
(***************************************************************************)
OwnerRef(x) == [kind |-> "DatabaseBackup", name |-> x.name, uid |-> backups[x].uid]

\* an adopt that leaves the body without owner reference
adopt_nothing(body, x) == body

\* kopf.adopt(cronjob): owner reference to the resource being handled
adopt(body, x) ==
    [body EXCEPT !.metadata = Put(body.metadata, "ownerReferences", <<OwnerRef(x)>>)]

\* what kopf knows of x's handlers: the cause it will invoke a handler for,
\* the number of retries of the current event, the outcome of the last
\* create/update/delete invocation (with the cluster call that raised, the
\* message, the requested delay and the value returned) and the outcome of the
\* last timer tick
Idle == [cause |-> "none", retry |-> 0, last |-> "none", step |-> "", msg |-> "",
         delay |-> 0, result |-> EmptyDict, timer |-> "none"]

\* the cause kopf detects next for x, given the spec the ended handler saw
NextCause(x, seen) ==
    IF backups[x].deleting THEN "delete"
    ELSE IF backups[x].spec # seen THEN "update"
    ELSE "none"

\* the handler returned a result
Succeeded(x, seen, result) ==
    [handlers[x] EXCEPT !.cause = NextCause(x, seen), !.retry = 0, !.last = "ok",
                        !.step = "", !.msg = result.message, !.delay = 0,
                        !.result = result]

\* raise kopf.PermanentError(msg): the event is handled, no retry
PermanentError(x, seen, step, msg) ==
    [handlers[x] EXCEPT !.cause = NextCause(x, seen), !.retry = 0,
                        !.last = "PermanentError", !.step = step, !.msg = msg,
                        !.delay = 0, !.result = EmptyDict]

\* raise kopf.TemporaryError(msg, delay): the handler is invoked again
TemporaryError(x, step, msg, delay) ==
    [handlers[x] EXCEPT !.cause = IF backups[x].deleting THEN "delete" ELSE @,
                        !.retry = Min(@ + 1, MaxRetry),
                        !.last = "TemporaryError", !.step = step, !.msg = msg,
                        !.delay = delay, !.result = EmptyDict]

(***************************************************************************)
(* operator/handlers.py : the handlers                                     *)
(***************************************************************************)
\* @kopf.on.startup configure: calls get_config. kopf runs it before any
\* resource handler and invokes it again when it raised.
configure ==
    /\ startup # "done"
    /\ get_config
    /\ startup' = IF raised' = NoError THEN "done" ELSE "failed"
    /\ UNCHANGED <<backups, cronjobs, handlers, inflight, uids, apiDown, environ, remote>>

\* the manifest both handlers build from (spec, name, namespace)
BuildCronjob(x, spec) ==
    LET schedule  == Get(spec, "schedule", config.backup.default_schedule)
        database  == spec["database"]
        storage   == spec["storage"]
        retention == Get(Get(spec, "retention", EmptyDict), "keepLast",
                         config.backup.default_retention_days)
    IN  cronjob_manifest(x.name, x.namespace, schedule, database, storage, retention)

\* a create handler that asks for a retry, as the update handler does
create_failed_transient(x, spec, code) ==
    TemporaryError(x, "create", "Cannot create CronJob: " \o ApiStr(code), 30)

\* except ApiException in create_backup_job
create_failed(x, spec, code) ==
    PermanentError(x, spec, "create", "Cannot create CronJob: " \o ApiStr(code))

\* an update handler that gives up when its first retry fails
update_failed_once(x, step, code) ==
    IF handlers[x].retry >= 1
    THEN PermanentError(x, backups[x].spec, step,
                        "Cannot update CronJob: " \o ApiStr(code))
    ELSE TemporaryError(x, step, "Cannot update CronJob: " \o ApiStr(code), 30)

\* except ApiException in update_backup_job
update_failed(x, step, code) ==
    TemporaryError(x, step, "Cannot update CronJob: " \o ApiStr(code), 30)

\* a payload that reports the resource's own name as the job name
create_backup_job_result_plain_name(x, spec) ==
    [message   |-> "Backup CronJob created with schedule: "
                       \o Get(spec, "schedule", config.backup.default_schedule),
     cronjob   |-> x.name,
     retention |-> Get(Get(spec, "retention", EmptyDict), "keepLast",
                       config.backup.default_retention_days)]

\* the value create_backup_job returns
create_backup_job_result(x, spec) ==
    [message   |-> "Backup CronJob created with schedule: "
                       \o Get(spec, "schedule", config.backup.default_schedule),
     cronjob   |-> x.name \o "-backup",
     retention |-> Get(Get(spec, "retention", EmptyDict), "keepLast",
                       config.backup.default_retention_days)]

create_backup_job_body(x) ==
    /\ startup = "done"
    /\ x \in DOMAIN backups
    /\ x \notin DOMAIN inflight
    /\ handlers[x].cause = "create"
    /\ LET spec == backups[x].spec
           v == validate_spec(spec["database"], spec["storage"])
           cronjob == adopt(BuildCronjob(x, spec), x)
           key == JobKey(x.namespace, cronjob.metadata.name)
           code == CreateCode(key)
       IN  IF v # ValidationPassed
           THEN /\ handlers' = [handlers EXCEPT ![x] = PermanentError(x, spec, "validate", v)]
                /\ cronjobs' = cronjobs
           ELSE IF code = 201
           THEN /\ cronjobs' = Put(cronjobs, key, Stored(cronjob))
                /\ handlers' = [handlers EXCEPT ![x] =
                       Succeeded(x, spec, create_backup_job_result(x, spec))]
           ELSE /\ cronjobs' = cronjobs
                /\ handlers' = [handlers EXCEPT ![x] = create_failed(x, spec, code)]

\* a create handler that also reports its phase
create_backup_job_sets_phase(x) ==
    /\ create_backup_job_body(x)
    /\ backups' = [backups EXCEPT ![x].status = Put(@, "phase", "Pending")]
    /\ UNCHANGED <<inflight, uids, apiDown, process, remote>>

\* a create handler that replaces the CronJob it finds under the name
create_backup_job_replaces(x) ==
    /\ startup = "done"
    /\ x \in DOMAIN backups
    /\ x \notin DOMAIN inflight
    /\ handlers[x].cause = "create"
    /\ LET spec == backups[x].spec
           v == validate_spec(spec["database"], spec["storage"])
           cronjob == adopt(BuildCronjob(x, spec), x)
           key == JobKey(x.namespace, cronjob.metadata.name)
           code == CreateCode(key)
       IN  IF v # ValidationPassed
           THEN /\ handlers' = [handlers EXCEPT ![x] = PermanentError(x, spec, "validate", v)]
                /\ cronjobs' = cronjobs
           ELSE IF code \in {201, 409}
           THEN /\ cronjobs' = Put(cronjobs, key, Stored(cronjob))
                /\ handlers' = [handlers EXCEPT ![x] =
                       Succeeded(x, spec, create_backup_job_result(x, spec))]
           ELSE /\ cronjobs' = cronjobs
                /\ handlers' = [handlers EXCEPT ![x] = create_failed(x, spec, code)]
    /\ UNCHANGED <<backups, inflight, uids, apiDown, process, remote>>

create_backup_job(x) ==
    /\ create_backup_job_body(x)
    /\ UNCHANGED <<backups, inflight, uids, apiDown, process, remote>>

\* an update handler that validates the new spec before its delete call
update_backup_job_validates_first(x) ==
    /\ startup = "done"
    /\ x \in DOMAIN backups
    /\ x \notin DOMAIN inflight
    /\ handlers[x].cause = "update"
    /\ LET key == JobKey(x.namespace, x.name \o "-backup")
           code == DeleteCode(key)
           spec == backups[x].spec
           v == validate_spec(spec["database"], spec["storage"])
       IN  IF v # ValidationPassed
           THEN /\ cronjobs' = cronjobs
                /\ inflight' = inflight
                /\ handlers' = [handlers EXCEPT ![x] = PermanentError(x, spec, "validate", v)]
           ELSE IF code = 200
           THEN /\ cronjobs' = Remove(cronjobs, key)
                /\ inflight' = Put(inflight, x, backups[x].spec)
                /\ handlers' = [handlers EXCEPT ![x].last = "running",
                                                ![x].step = "", ![x].msg = "",
                                                ![x].delay = 0,
                                                ![x].result = EmptyDict]
           ELSE /\ cronjobs' = cronjobs
                /\ inflight' = inflight
                /\ handlers' = [handlers EXCEPT ![x] = update_failed(x, "delete", code)]
    /\ UNCHANGED <<backups, uids, apiDown, process, remote>>

\* first half of update_backup_job: the delete call
update_backup_job_delete(x) ==
    /\ startup = "done"
    /\ x \in DOMAIN backups
    /\ x \notin DOMAIN inflight
    /\ handlers[x].cause = "update"
    /\ LET key == JobKey(x.namespace, x.name \o "-backup")
           code == DeleteCode(key)
       IN  IF code = 200
           THEN /\ cronjobs' = Remove(cronjobs, key)
                /\ inflight' = Put(inflight, x, backups[x].spec)
                /\ handlers' = [handlers EXCEPT ![x].last = "running",
                                                ![x].step = "", ![x].msg = "",
                                                ![x].delay = 0,
                                                ![x].result = EmptyDict]
           ELSE /\ cronjobs' = cronjobs
                /\ inflight' = inflight
                /\ handlers' = [handlers EXCEPT ![x] = update_failed(x, "delete", code)]
    /\ UNCHANGED <<backups, uids, apiDown, process, remote>>

\* second half of update_backup_job: validate, rebuild, create
update_backup_job_recreate(x) ==
    /\ x \in DOMAIN inflight
    /\ LET spec == inflight[x]
           v == validate_spec(spec["database"], spec["storage"])
           cronjob == adopt(BuildCronjob(x, spec), x)
           key == JobKey(x.namespace, cronjob.metadata.name)
           code == CreateCode(key)
       IN  IF v # ValidationPassed
           THEN /\ handlers' = [handlers EXCEPT ![x] = PermanentError(x, spec, "validate", v)]
                /\ cronjobs' = cronjobs
           ELSE IF code = 201
           THEN /\ cronjobs' = Put(cronjobs, key, Stored(cronjob))
                /\ handlers' = [handlers EXCEPT ![x] =
                       Succeeded(x, spec, [message |-> "Backup job updated successfully"])]
           ELSE /\ cronjobs' = cronjobs
                /\ handlers' = [handlers EXCEPT ![x] = update_failed(x, "create", code)]
    /\ inflight' = Remove(inflight, x)
    /\ UNCHANGED <<backups, uids, apiDown, process, remote>>

\* delete_backup_job: logs and returns, no cluster call
delete_backup_job(x) ==
    /\ startup = "done"
    /\ x \in DOMAIN backups
    /\ x \notin DOMAIN inflight
    /\ handlers[x].cause = "delete"
    /\ handlers' = [handlers EXCEPT ![x] =
           [@ EXCEPT !.cause = "released", !.retry = 0, !.last = "ok", !.step = "",
                     !.msg = "Backup job " \o x.name \o " deleted", !.delay = 0,
                     !.result = [message |-> "Backup job " \o x.name \o " deleted"]]]
    /\ UNCHANGED <<backups, cronjobs, inflight, uids, apiDown, process, remote>>

\* datetime.isoformat() of a last-schedule time (day t of the month, 02:00 UTC)
IsoFormat(t) == "2026-11-0" \o ToString(t) \o "T02:00:00+00:00"

\* the patch of a successful read, merged into the status
patch_from_cronjob(status, cronjob) ==
    LET p1 == IF cronjob.status.lastScheduleTime # NoTime
              THEN Put(Put(status, "lastBackup",
                           IsoFormat(cronjob.status.lastScheduleTime)),
                       "phase", "Active")
              ELSE Put(status, "phase", "Pending")
    IN  IF Len(cronjob.status.active) > 0
        THEN Put(p1, "activeJobs", Len(cronjob.status.active))
        ELSE Put(p1, "activeJobs", 0)

\* the patch of the except branch, merged into the status
patch_from_error(status, code) ==
    Put(Put(status, "phase", "Error"), "error", ApiStr(code))

\* a timer that leaves activeJobs alone when no run is active
StatusPatch_keeps_count(status, code, cronjob) ==
    IF code = 200
    THEN LET p == patch_from_cronjob(status, cronjob)
         IN  IF Len(cronjob.status.active) > 0 THEN p
             ELSE [k \in DOMAIN p \ ({"activeJobs"} \ DOMAIN status) |->
                      IF k = "activeJobs" THEN status[k] ELSE p[k]]
    ELSE patch_from_error(status, code)

\* a timer that stays in Error once it has reported it
StatusPatch_sticky_error(status, code, cronjob) ==
    IF code = 200
    THEN IF "phase" \in DOMAIN status /\ status["phase"] = "Error"
         THEN status
         ELSE patch_from_cronjob(status, cronjob)
    ELSE patch_from_error(status, code)

\* a timer that reports only what it has just read: no lastBackup while the
\* phase is Pending, neither lastBackup nor activeJobs while it is Error
StatusPatch_replaces_status(status, code, cronjob) ==
    IF code = 200
    THEN LET p == patch_from_cronjob(status, cronjob)
         IN  IF cronjob.status.lastScheduleTime # NoTime THEN p
             ELSE Remove(p, "lastBackup")
    ELSE Remove(Remove(patch_from_error(status, code), "lastBackup"), "activeJobs")

\* the status after the merge of the timer's patch
StatusPatch(status, code, cronjob) ==
    IF code = 200
    THEN patch_from_cronjob(status, cronjob)
    ELSE patch_from_error(status, code)

check_backup_status(x) ==
    /\ startup = "done"
    /\ x \in DOMAIN backups
    /\ LET key == JobKey(x.namespace, x.name \o "-backup")
           code == ReadCode(key)
       IN  backups' = [backups EXCEPT ![x].status =
               StatusPatch(@, code, IF code = 200 THEN cronjobs[key] ELSE EmptyDict)]
    /\ handlers' = [handlers EXCEPT ![x].timer = "ok"]
    /\ UNCHANGED <<cronjobs, inflight, uids, apiDown, process, remote>>

(***************************************************************************)
(* Environment: users, the platform's garbage collector and scheduler,     *)
(* restarts of the controller process                                      *)
(***************************************************************************)
UserCreate(x, s) ==
    /\ x \notin DOMAIN backups
    /\ uids[x] < MaxGen
    /\ uids' = [uids EXCEPT ![x] = @ + 1]
    /\ backups' = Put(backups, x, [uid |-> uids[x] + 1, spec |-> s,
                                   deleting |-> FALSE, status |-> EmptyDict])
    /\ handlers' = [handlers EXCEPT ![x] = [Idle EXCEPT !.cause = "create"]]
    /\ UNCHANGED <<cronjobs, inflight, apiDown, process, remote>>

UserUpdate(x, s) ==
    /\ x \in DOMAIN backups
    /\ ~backups[x].deleting
    /\ s # backups[x].spec
    /\ backups' = [backups EXCEPT ![x].spec = s]
    /\ handlers' = [handlers EXCEPT ![x] =
           IF @.cause = "create" THEN @ ELSE [@ EXCEPT !.cause = "update", !.retry = 0]]
    /\ UNCHANGED <<cronjobs, inflight, uids, apiDown, process, remote>>

UserDelete(x) ==
    /\ x \in DOMAIN backups
    /\ ~backups[x].deleting
    /\ backups' = [backups EXCEPT ![x].deleting = TRUE]
    /\ handlers' = [handlers EXCEPT ![x].cause = "delete", ![x].retry = 0]
    /\ UNCHANGED <<cronjobs, inflight, uids, apiDown, process, remote>>

\* the delete handler is done: kopf releases its finalizer and the resource
\* disappears from the cluster
Finalize(x) ==
    /\ x \in DOMAIN backups
    /\ handlers[x].cause = "released"
    /\ backups' = Remove(backups, x)
    /\ handlers' = [handlers EXCEPT ![x] = Idle]
    /\ UNCHANGED <<cronjobs, inflight, uids, apiDown, process, remote>>

\* x owns the object: an owner reference with x's name and uid, same namespace
Owns(x, obj) ==
    /\ x \in DOMAIN backups
    /\ obj.metadata.namespace = x.namespace
    /\ "ownerReferences" \in DOMAIN obj.metadata
    /\ \E i \in DOMAIN obj.metadata.ownerReferences :
          /\ obj.metadata.ownerReferences[i].name = x.name
          /\ obj.metadata.ownerReferences[i].uid = backups[x].uid

\* ownership cascade: an object whose owners are all gone is removed
GarbageCollect(key) ==
    /\ key \in DOMAIN cronjobs
    /\ "ownerReferences" \in DOMAIN cronjobs[key].metadata
    /\ \A x \in Resources : ~Owns(x, cronjobs[key])
    /\ cronjobs' = Remove(cronjobs, key)
    /\ UNCHANGED <<backups, handlers, inflight, uids, apiDown, process, remote>>

\* the platform starts a run of the CronJob
JobStart(key) ==
    /\ key \in DOMAIN cronjobs
    /\ cronjobs[key].status.lastScheduleTime < MaxTime
    /\ Len(cronjobs[key].status.active) < MaxActive
    /\ cronjobs' = [cronjobs EXCEPT ![key].status =
           [lastScheduleTime |-> @.lastScheduleTime + 1,
            active |-> Append(@.active, "backup-run")]]
    /\ UNCHANGED <<backups, handlers, inflight, uids, apiDown, process, remote>>

\* a run ends
JobFinish(key) ==
    /\ key \in DOMAIN cronjobs
    /\ cronjobs[key].status.active # <<>>
    /\ cronjobs' = [cronjobs EXCEPT ![key].status.active = Tail(@)]
    /\ UNCHANGED <<backups, handlers, inflight, uids, apiDown, process, remote>>

\* a run of the CronJob's container: the backup command writes its file, the
\* upload command copies /backup/*.gz to the target (and stops there when the
\* glob matches no file), then lists the target and removes the selection
RunBackup(key) ==
    /\ key \in DOMAIN cronjobs
    /\ LET args    == cronjobs[key].spec.args
           target  == args.upload.target
           before  == Get(remote, target, {})
           stamp   == IF before = {} THEN 1 ELSE Max(before) + 1
           listing == before \cup {stamp}
       IN  /\ stamp <= MaxStamp
           /\ remote' = IF args.file \in UploadGlob
                        THEN Put(remote, target,
                                 listing \ CleanupSelection(listing, args.upload))
                        ELSE remote
    /\ UNCHANGED <<backups, cronjobs, handlers, inflight, uids, apiDown, process>>

\* the cluster API starts to answer every call with a server error
ApiFail ==
    /\ ~apiDown
    /\ apiDown' = TRUE
    /\ UNCHANGED <<backups, cronjobs, handlers, inflight, uids, process, remote>>

\* the cluster API is healthy again
ApiRecover ==
    /\ apiDown
    /\ apiDown' = FALSE
    /\ UNCHANGED <<backups, cronjobs, handlers, inflight, uids, process, remote>>

\* the controller process dies between the delete and the create of an
\* update; the new process starts with _config = None, its startup handler
\* calls get_config, and kopf invokes the unfinished handler again
ControllerRestart ==
    /\ startup = "done"
    /\ DOMAIN inflight # {}
    /\ config' = from_env(environ)
    /\ raised' = validate(from_env(environ))
    /\ startup' = IF validate(from_env(environ)) = NoError THEN "done" ELSE "failed"
    /\ inflight' = EmptyDict
    /\ handlers' = [x \in Resources |->
           IF x \in DOMAIN inflight
           THEN [handlers[x] EXCEPT !.cause = IF backups[x].deleting THEN "delete"
                                              ELSE "update",
                                    !.last = "aborted"]
           ELSE handlers[x]]
    /\ UNCHANGED <<backups, cronjobs, uids, apiDown, environ, remote>>

(***************************************************************************)
(* Specification                                                           *)
(***************************************************************************)
\* the process after a startup with no override in the environment: configure
\* has installed the default configuration
Started ==
    /\ environ = EmptyDict
    /\ config = from_env(EmptyDict)
    /\ startup = "done"
    /\ raised = NoError

Init ==
    /\ backups = EmptyDict
    /\ cronjobs = EmptyDict
    /\ handlers = [x \in Resources |-> Idle]
    /\ inflight = EmptyDict
    /\ uids = [x \in Resources |-> 0]
    /\ apiDown = FALSE
    /\ Started
    /\ remote = EmptyDict

Next ==
    \/ \E x \in Resources : create_backup_job(x)
    \/ \E x \in Resources : update_backup_job_delete(x)
    \/ \E x \in Resources : update_backup_job_recreate(x)
    \/ \E x \in Resources : delete_backup_job(x)
    \/ \E x \in Resources : check_backup_status(x)
    \/ \E x \in Resources, s \in SpecValues : UserCreate(x, s)
    \/ \E x \in Resources, s \in SpecValues : UserUpdate(x, s)
    \/ \E x \in Resources : UserDelete(x)
    \/ \E x \in Resources : Finalize(x)
    \/ \E key \in DOMAIN cronjobs : GarbageCollect(key)
    \/ \E key \in DOMAIN cronjobs : JobStart(key)
    \/ \E key \in DOMAIN cronjobs : JobFinish(key)
    \/ ControllerRestart
    \/ ApiFail
    \/ ApiRecover

Spec == Init /\ [][Next]_vars

\* The lifecycle of the CronJobs: every step except the timer's and the
\* scheduler's, which change neither the set of CronJobs nor the handlers'
\* causes and outcomes.
LifecycleNext ==
    \/ \E x \in Resources : create_backup_job(x)
    \/ \E x \in Resources : update_backup_job_delete(x)
    \/ \E x \in Resources : update_backup_job_recreate(x)
    \/ \E x \in Resources : delete_backup_job(x)
    \/ \E x \in Resources, s \in SpecValues : UserCreate(x, s)
    \/ \E x \in Resources, s \in SpecValues : UserUpdate(x, s)
    \/ \E x \in Resources : UserDelete(x)
    \/ \E x \in Resources : Finalize(x)
    \/ \E key \in DOMAIN cronjobs : GarbageCollect(key)
    \/ ControllerRestart
    \/ ApiFail
    \/ ApiRecover

\* kopf invokes the handler of a pending cause (a retry after its delay) and
\* releases the finalizer of a handled deletion; the platform's garbage
\* collector runs
Fairness ==
    /\ \A x \in Resources :
          /\ WF_vars(create_backup_job(x))
          /\ WF_vars(update_backup_job_delete(x))
          /\ WF_vars(update_backup_job_recreate(x))
          /\ WF_vars(delete_backup_job(x))
          /\ WF_vars(Finalize(x))
    /\ WF_vars(\E key \in DOMAIN cronjobs : GarbageCollect(key))

FairSpec == Init /\ [][LifecycleNext]_vars /\ Fairness

(***************************************************************************)
(* The configuration singleton: the process starts with _config = None and *)
(* any of the environments below; get_config and set_config are called by  *)
(* the startup handler and by any other importer of operator.config        *)
(***************************************************************************)
\* the process environments: DEFAULT_RETENTION_DAYS unset, "0", "30" or not a
\* number, DEFAULT_BACKUP_SCHEDULE unset or set
Environs ==
    {r @@ sch :
        r \in Optional("DEFAULT_RETENTION_DAYS", {"0", "30", "weekly"}),
        sch \in Optional("DEFAULT_BACKUP_SCHEDULE", {"0 4 * * *"})}

\* the configurations handed to set_config: one valid, and one for each bound
\* of validate() that it violates
ConfigValues ==
    {[OperatorConfig EXCEPT !.version = "0.2.0", !.backup.backup_timeout_seconds = 7200],
     [OperatorConfig EXCEPT !.reconciliation_interval = 59],
     [OperatorConfig EXCEPT !.backup.default_retention_days = 0],
     [OperatorConfig EXCEPT !.backup.backup_timeout_seconds = 59]}

\* a direct call of get_config()
CallGetConfig ==
    /\ get_config
    /\ UNCHANGED <<backups, cronjobs, handlers, inflight, uids, apiDown, environ, startup, remote>>

\* a direct call of set_config(c)
CallSetConfig(c) ==
    /\ set_config(c)
    /\ UNCHANGED <<backups, cronjobs, handlers, inflight, uids, apiDown, environ, startup, remote>>

ConfigInit ==
    /\ backups = EmptyDict
    /\ cronjobs = EmptyDict
    /\ handlers = [x \in Resources |-> Idle]
    /\ inflight = EmptyDict
    /\ uids = [x \in Resources |-> 0]
    /\ apiDown = FALSE
    /\ environ \in Environs
    /\ config = None
    /\ startup = "pending"
    /\ raised = NoError
    /\ remote = EmptyDict

ConfigNext ==
    \/ configure
    \/ CallGetConfig
    \/ \E c \in ConfigValues : CallSetConfig(c)
    \/ \E x \in Resources, s \in SpecValues : UserCreate(x, s)
    \/ \E x \in Resources, s \in SpecValues : UserUpdate(x, s)
    \/ \E x \in Resources : create_backup_job(x)
    \/ \E x \in Resources : update_backup_job_delete(x)
    \/ \E x \in Resources : update_backup_job_recreate(x)

ConfigSpec == ConfigInit /\ [][ConfigNext]_vars

(***************************************************************************)
(* Retention: the resource asks for any keepLast (or none), the target     *)
(* holds any listing, and the CronJob's container runs                     *)
(***************************************************************************)
RetentionInputs ==
    {SpecOrders, SpecMongo, [database |-> SpecOrders["database"],
                             storage  |-> SpecOrders["storage"]]}
    \cup {[SpecOrders EXCEPT !["retention"] = [keepLast |-> n]] : n \in 0..MaxKeep}

\* the target is empty, or holds the object of time 1 and any of the later
\* ones; the last time is left for the run's own upload
InitialListings == {{}} \cup {{1} \cup S : S \in SUBSET (2..(MaxStamp - 1))}

RetentionInit ==
    /\ Started
    /\ \E x \in Resources, s \in RetentionInputs :
          /\ backups = Put(EmptyDict, x, [uid |-> 1, spec |-> s, deleting |-> FALSE,
                                          status |-> EmptyDict])
          /\ handlers = [y \in Resources |->
                 IF y = x THEN [Idle EXCEPT !.cause = "create"] ELSE Idle]
          /\ uids = [y \in Resources |-> IF y = x THEN 1 ELSE 0]
          /\ \E listing \in InitialListings :
                remote = Put(EmptyDict, BuildCronjob(x, s).spec.args.upload.target, listing)
    /\ cronjobs = EmptyDict
    /\ inflight = EmptyDict
    /\ apiDown = FALSE

RetentionNext ==
    \/ \E x \in Resources : create_backup_job(x)
    \/ \E key \in DOMAIN cronjobs : RunBackup(key)

RetentionSpec == RetentionInit /\ [][RetentionNext]_vars

(***************************************************************************)
(* Manifests of arbitrary valid specs: any engine, any storage type, the   *)
(* region and each credentials key supplied or not                         *)
(***************************************************************************)
\* the credentials of a spec section: none, under the key the builder reads,
\* or under the key `credentialsSecretRef`
CredentialInputs(secret) ==
    Optional("credentialsSecret", {secret})
        \cup {[j \in {"credentialsSecretRef"} |-> secret \o "-ref"]}

ManifestSpecs ==
    {[database |-> [type |-> t, host |-> "db.internal", name |-> "orders"] @@ dc,
      storage  |-> [type |-> st, bucket |-> "backups"] @@ r @@ sc] :
        t \in SupportedDatabaseTypes, dc \in CredentialInputs("db-secret"),
        st \in SupportedStorageTypes, r \in Optional("region", {"eu-west-1"}),
        sc \in CredentialInputs("storage-secret")}

\* the specs an update installs: the s3 ones that leave the region out
ManifestUpdates ==
    {s \in ManifestSpecs :
        s["storage"]["type"] = "s3" /\ "region" \notin DOMAIN s["storage"]}

ManifestInit ==
    /\ Started
    /\ \E x \in Resources, s \in ManifestSpecs :
          /\ backups = Put(EmptyDict, x, [uid |-> 1, spec |-> s, deleting |-> FALSE,
                                          status |-> EmptyDict])
          /\ handlers = [y \in Resources |->
                 IF y = x THEN [Idle EXCEPT !.cause = "create"] ELSE Idle]
          /\ uids = [y \in Resources |-> IF y = x THEN 1 ELSE 0]
    /\ cronjobs = EmptyDict
    /\ inflight = EmptyDict
    /\ apiDown = FALSE
    /\ remote = EmptyDict

ManifestNext ==
    \/ \E x \in Resources : create_backup_job(x)
    \/ \E x \in Resources, s \in ManifestUpdates : UserUpdate(x, s)
    \/ \E x \in Resources : update_backup_job_delete(x)
    \/ \E x \in Resources : update_backup_job_recreate(x)

ManifestSpec == ManifestInit /\ [][ManifestNext]_vars

(***************************************************************************)
(* Validation of arbitrary specs: the resource starts with any combination *)
(* of engine type, storage type and present / empty / absent required      *)
(* fields, and is created and updated by the handlers                      *)
(***************************************************************************)
DatabaseInputs ==
    {[type |-> t] @@ h @@ n :
        t \in {"postgres", "mysql", "mongodb", "redis", ""},
        h \in Optional("host", {"", "db.internal"}),
        n \in Optional("name", {"", "orders"})}

StorageInputs ==
    {[type |-> t] @@ b :
        t \in {"s3", "gcs", "azure", "ftp"},
        b \in Optional("bucket", {"", "backups"})}

ValidationInputs ==
    {[database |-> d, storage |-> st] : d \in DatabaseInputs, st \in StorageInputs}

ValidationInit ==
    /\ \E x \in Resources, s \in ValidationInputs :
          /\ backups = Put(EmptyDict, x, [uid |-> 1, spec |-> s, deleting |-> FALSE,
                                          status |-> EmptyDict])
          /\ handlers = [y \in Resources |->
                 IF y = x THEN [Idle EXCEPT !.cause = "create"] ELSE Idle]
          /\ uids = [y \in Resources |-> IF y = x THEN 1 ELSE 0]
    /\ cronjobs = EmptyDict
    /\ inflight = EmptyDict
    /\ apiDown = FALSE
    /\ Started
    /\ remote = EmptyDict

ValidationNext ==
    \/ \E x \in Resources : create_backup_job(x)
    \/ \E x \in Resources : update_backup_job_delete(x)
    \/ \E x \in Resources : update_backup_job_recreate(x)
    \/ \E x \in Resources, s \in SpecValues : UserUpdate(x, s)
    \/ ApiFail
    \/ ApiRecover

ValidationSpec == ValidationInit /\ [][ValidationNext]_vars

(***************************************************************************)
(* Properties                                                              *)
(***************************************************************************)
\* the dict d has key k with value v
Has(d, k, v) == k \in DOMAIN d /\ d[k] = v

TimerKey(x) == JobKey(x.namespace, x.name \o "-backup")

\* the read of this timer step was answered with the object
ReadSucceeded(x) == ~apiDown /\ TimerKey(x) \in DOMAIN cronjobs

\* C7: status derivation by the timer. After a tick whose read of X-backup
\* succeeds, phase is Active and lastBackup is the job's last-schedule time
\* when the job has one, phase is Pending when it has none, and activeJobs is
\* the number of running instances; after a tick whose read fails, phase is
\* Error and error is a non-empty message.
C7_StatusDerivation ==
    [][\A x \in Resources : check_backup_status(x) =>
          LET st == backups'[x].status
          IN  IF ReadSucceeded(x)
              THEN LET js == cronjobs[TimerKey(x)].status
                   IN  /\ js.lastScheduleTime # NoTime =>
                              /\ Has(st, "phase", "Active")
                              /\ Has(st, "lastBackup", IsoFormat(js.lastScheduleTime))
                       /\ js.lastScheduleTime = NoTime => Has(st, "phase", "Pending")
                       /\ Has(st, "activeJobs", Len(js.active))
              ELSE /\ Has(st, "phase", "Error")
                   /\ "error" \in DOMAIN st
                   /\ st.error # ""]_vars

\* a tick has derived Active with the second schedule time and one running
\* instance from the live CronJob
C7_Witness ==
    \E x \in DOMAIN backups :
        /\ TimerKey(x) \in DOMAIN cronjobs
        /\ cronjobs[TimerKey(x)].status.lastScheduleTime = 2
        /\ DOMAIN backups[x].status = {"phase", "lastBackup", "activeJobs"}
        /\ backups[x].status.phase = "Active"
        /\ backups[x].status.lastBackup = IsoFormat(2)
        /\ backups[x].status.activeJobs = 1

\* C8: the error field is present only in phase Error, i.e. a status whose
\* phase is Pending or Active carries no error message.
C8_ErrorOnlyInErrorPhase ==
    \A x \in DOMAIN backups :
        LET st == backups[x].status
        IN  (Has(st, "phase", "Pending") \/ Has(st, "phase", "Active"))
                => "error" \notin DOMAIN st

\* C9: every invocation of on-create, on-update (either half) and on-delete,
\* successful or not, leaves the status of the resource as it was.
C9_HandlersLeaveStatus ==
    [][\A x \in Resources :
          (\/ create_backup_job(x)
           \/ update_backup_job_delete(x)
           \/ update_backup_job_recreate(x)
           \/ delete_backup_job(x))
          => /\ x \in DOMAIN backups'
             /\ backups'[x].status = backups[x].status]_vars

\* an update has failed while the resource carries a status the timer wrote
C9_Witness ==
    \E x \in DOMAIN backups :
        /\ handlers[x].last = "TemporaryError"
        /\ Has(backups[x].status, "phase", "Active")

\* the CronJobs that carry an ownership link to x
OwnedKeys(x) == {k \in DOMAIN cronjobs : Owns(x, cronjobs[k])}

\* the last create or update invocation for x returned a result
LastReconcileSucceeded(x) ==
    /\ handlers[x].last = "ok"
    /\ \/ "cronjob" \in DOMAIN handlers[x].result
       \/ handlers[x].msg = "Backup job updated successfully"

\* C2: every BackupSpec X has at most one ScheduledJob; when X's most recent
\* create or update handler has completed successfully and no update of X is
\* under way, it has exactly one, named X-backup, in X's namespace.
C2_OneJobPerBackup ==
    \A x \in DOMAIN backups :
        /\ Cardinality(OwnedKeys(x)) <= 1
        /\ (LastReconcileSucceeded(x) /\ x \notin DOMAIN inflight) =>
              /\ OwnedKeys(x) = {JobKey(x.namespace, x.name \o "-backup")}
              /\ \A k \in OwnedKeys(x) :
                    /\ cronjobs[k].metadata.name = x.name \o "-backup"
                    /\ cronjobs[k].metadata.namespace = x.namespace

\* an update has recreated the CronJob of the second incarnation of x
C2_Witness ==
    \E x \in DOMAIN backups :
        /\ handlers[x].last = "ok"
        /\ handlers[x].msg = "Backup job updated successfully"
        /\ x \notin DOMAIN inflight
        /\ backups[x].uid = 2
        /\ Cardinality(OwnedKeys(x)) = 1

\* the invariant of a BackupSpec (spec.md section 3)
SpecInvariant(spec) ==
    /\ spec["database"]["type"] \in {"postgres", "mysql", "mongodb"}
    /\ spec["storage"]["type"] \in {"s3", "gcs", "azure"}
    /\ Get(spec["database"], "host", "") # ""
    /\ Get(spec["database"], "name", "") # ""
    /\ Get(spec["storage"], "bucket", "") # ""

\* the spec the handler running for x was invoked with
HandlerSpec(x) == IF x \in DOMAIN inflight THEN inflight[x] ELSE backups[x].spec

\* C3: a ScheduledJob appears in the cluster only by on-create or on-update,
\* from a spec that satisfies the BackupSpec invariant, so that the image and
\* the command are those of the spec's own engine and never the fallback;
\* and with a spec that fails validation, on-create and the rebuilding half
\* of on-update issue no create call at all and end in a permanent error.
C3_CreatedOnlyFromValidSpec ==
    /\ [][\A k \in DOMAIN cronjobs' \ DOMAIN cronjobs :
             \E x \in DOMAIN backups :
                 /\ create_backup_job(x) \/ update_backup_job_recreate(x)
                 /\ SpecInvariant(HandlerSpec(x))
                 /\ HandlerSpec(x)["database"]["type"] \in DOMAIN DatabaseImages
                 /\ HandlerSpec(x)["database"]["type"] \in BackupCommandKeys
                 /\ cronjobs'[k].spec.image =
                        DatabaseImages[HandlerSpec(x)["database"]["type"]]]_vars
    /\ [][\A x \in DOMAIN backups :
             ((create_backup_job(x) \/ update_backup_job_recreate(x))
                  /\ ~SpecInvariant(HandlerSpec(x))) =>
                 /\ cronjobs' = cronjobs
                 /\ handlers'[x].last = "PermanentError"
                 /\ handlers'[x].step = "validate"]_vars

\* on-update has rejected the unsupported engine after its delete, and a
\* CronJob of a supported engine has been created before
C3_Witness ==
    \E x \in DOMAIN backups :
        /\ handlers[x].last = "PermanentError"
        /\ handlers[x].msg = "Unsupported database type"
        /\ backups[x].spec = SpecRedis
        /\ JobKey(x.namespace, x.name \o "-backup") \notin DOMAIN cronjobs
        /\ Has(backups[x].status, "phase", "Active")

\* the create call of this on-create step raised ApiException
CreateCallFailed(x) ==
    /\ SpecInvariant(backups[x].spec)
    /\ \/ apiDown
       \/ JobKey(x.namespace, x.name \o "-backup") \in DOMAIN cronjobs

\* C4: an on-create invocation whose create call fails with a cluster-API
\* error ends in a permanent failure, leaves the cluster's ScheduledJobs as
\* they were, and on-create is not invoked again for that event.
C4_CreateFailureIsPermanent ==
    [][\A x \in Resources :
          (create_backup_job(x) /\ CreateCallFailed(x)) =>
              /\ handlers'[x].last = "PermanentError"
              /\ handlers'[x].step = "create"
              /\ handlers'[x].cause # "create"
              /\ handlers'[x].delay = 0
              /\ cronjobs' = cronjobs]_vars

\* on-create has failed on a server error and x has no CronJob
C4_Witness ==
    \E x \in DOMAIN backups :
        /\ handlers[x].last = "PermanentError"
        /\ handlers[x].msg = "Cannot create CronJob: " \o ApiStr(500)
        /\ handlers[x].cause = "none"
        /\ DOMAIN cronjobs = {}

\* this on-update step raised ApiException on its delete or its create call
UpdateCallFailed(x) ==
    \/ update_backup_job_delete(x) /\ x \notin DOMAIN inflight'
    \/ /\ update_backup_job_recreate(x)
       /\ SpecInvariant(inflight[x])
       /\ cronjobs' = cronjobs

\* C5 as claimed: on-update is re-invoked once after a cluster-API failure,
\* and when that retry fails too no further retry takes place.
C5_RetriedOnceThenStops ==
    \A x \in DOMAIN backups :
        (handlers[x].last = "TemporaryError" /\ handlers[x].retry >= 2)
            => handlers[x].cause # "update"

\* C5 as amended: every on-update invocation that hits a cluster-API failure,
\* the first one and every retry alike, is reported as transient with the
\* fixed delay of 30 seconds and leaves the update to be invoked again (or the
\* delete, when the resource is being deleted); the retry count never ends it.
C5_EveryFailureIsRetried ==
    [][\A x \in Resources :
          UpdateCallFailed(x) =>
              /\ handlers'[x].last = "TemporaryError"
              /\ handlers'[x].delay = 30
              /\ handlers'[x].retry = Min(handlers[x].retry + 1, MaxRetry)
              /\ handlers'[x].cause = IF backups[x].deleting THEN "delete" ELSE "update"
              /\ x \notin DOMAIN inflight']_vars

\* a retry of on-update has failed and the update is due again
C5_Witness ==
    \E x \in DOMAIN backups :
        /\ handlers[x].last = "TemporaryError"
        /\ handlers[x].retry >= 2
        /\ handlers[x].cause = "update"
        /\ handlers[x].delay = 30

\* the status a tick for x writes when its read is answered with code
TickStatus(x, code) ==
    StatusPatch(backups[x].status, code,
                IF code = 200 THEN cronjobs[TimerKey(x)] ELSE EmptyDict)

\* C6: a timer tick between the delete and the recreate of an on-update reads
\* 'not found', sets phase Error with a message and ends normally; Error is
\* not absorbing: in every state where the phase is Error and X-backup
\* exists, a tick whose read succeeds sets phase Pending or Active.
C6_TickInUpdateWindow ==
    /\ [][\A x \in Resources : check_backup_status(x) =>
             LET st == backups'[x].status
             IN  /\ handlers'[x].timer = "ok"
                 /\ (x \in DOMAIN inflight /\ ~apiDown) =>
                        /\ Has(st, "phase", "Error")
                        /\ Has(st, "error", ApiStr(404))
                 /\ ReadSucceeded(x) =>
                        Has(st, "phase", "Pending") \/ Has(st, "phase", "Active")]_vars
    /\ [](\A x \in DOMAIN backups :
             (Has(backups[x].status, "phase", "Error")
                  /\ TimerKey(x) \in DOMAIN cronjobs) =>
                 \/ Has(TickStatus(x, 200), "phase", "Pending")
                 \/ Has(TickStatus(x, 200), "phase", "Active"))

\* a tick has reported Error with 'not found' inside the window of an update
\* of a CronJob that an earlier tick had seen Active
C6_Witness ==
    \E x \in DOMAIN inflight :
        /\ Has(backups[x].status, "phase", "Error")
        /\ Has(backups[x].status, "error", ApiStr(404))
        /\ "lastBackup" \in DOMAIN backups[x].status
        /\ handlers[x].timer = "ok"

\* x is the resource with uid u and spec s, and it is not being deleted
IsBackup(x, u, s) ==
    /\ x \in DOMAIN backups
    /\ backups[x].uid = u
    /\ backups[x].spec = s
    /\ ~backups[x].deleting

\* the last on-update invocation for x ended after its delete and before its
\* create had succeeded, and the update is due to be invoked again
UpdateInterrupted(x) ==
    /\ x \notin DOMAIN inflight
    /\ handlers[x].cause = "update"
    /\ \/ handlers[x].last = "aborted"
       \/ handlers[x].last = "TemporaryError" /\ handlers[x].step = "create"

\* X-backup exists, owned by x and built from spec s
JobDerivedFrom(x, s) ==
    /\ x \in DOMAIN backups
    /\ TimerKey(x) \in DOMAIN cronjobs
    /\ cronjobs[TimerKey(x)].metadata = adopt(BuildCronjob(x, s), x).metadata
    /\ cronjobs[TimerKey(x)].spec = BuildCronjob(x, s).spec

\* C1: update convergence (the retry counter of the model saturates, so the
\* endless repetition of one failing invocation shows as a state that no
\* longer changes). When an on-update invocation for X with a valid
\* spec has ended after its delete step and before its create succeeded, the
\* handler being invoked again and the cluster API healthy in the end, the
\* ScheduledJob X-backup derived from that spec eventually exists (unless X is
\* updated again or deleted first).
C1_UpdateConverges ==
    \A x \in Resources : \A s \in SpecValues : \A u \in 1..MaxGen :
        <>[](~apiDown) =>
            ((IsBackup(x, u, s) /\ SpecInvariant(s) /\ UpdateInterrupted(x))
                ~> (JobDerivedFrom(x, s) \/ ~IsBackup(x, u, s)))

\* X-backup exists although no resource x exists
JobOutlivesBackup(x) == x \notin DOMAIN backups /\ TimerKey(x) \in DOMAIN cronjobs

\* C10: on-delete changes no ScheduledJob and succeeds whether or not the
\* cluster API answers (it makes no cluster call); every ScheduledJob that on-create or
\* on-update puts into the cluster carries the ownership link to the resource
\* handled; and a ScheduledJob whose BackupSpec is gone is eventually removed.
C10_CascadeRemovesJob ==
    /\ [][\A x \in Resources : delete_backup_job(x) =>
             cronjobs' = cronjobs /\ handlers'[x].last = "ok"]_vars
    /\ [][\A k \in DOMAIN cronjobs' \ DOMAIN cronjobs :
             \E x \in DOMAIN backups :
                 /\ create_backup_job(x) \/ update_backup_job_recreate(x)
                 /\ Owns(x, cronjobs'[k])]_vars
    /\ \A x \in Resources :
          JobOutlivesBackup(x) ~> (TimerKey(x) \notin DOMAIN cronjobs)

\* the resource is gone, its delete handler has run, and its CronJob is still
\* in the cluster
C10_Witness ==
    \E x \in Resources :
        /\ JobOutlivesBackup(x)
        /\ "ownerReferences" \in DOMAIN cronjobs[TimerKey(x)].metadata
        /\ cronjobs[TimerKey(x)].metadata.ownerReferences[1].uid = uids[x]

\* a create, update or delete handler invocation for x takes this step
HandlerStep(x) ==
    \/ create_backup_job(x)
    \/ update_backup_job_delete(x)
    \/ update_backup_job_recreate(x)
    \/ delete_backup_job(x)

\* the CronJobs this step creates, deletes or replaces
Touched ==
    {k \in DOMAIN cronjobs \cup DOMAIN cronjobs' :
        \/ k \notin DOMAIN cronjobs
        \/ k \notin DOMAIN cronjobs'
        \/ cronjobs[k] # cronjobs'[k]}

\* C11: a handler invocation for X creates, deletes or replaces only
\* ScheduledJobs owned by X: every object it removes or replaces carries the
\* ownership link to X (name and uid) before the step, and every object it
\* creates carries it after the step.
C11_ActsOnlyOnOwned ==
    [][\A x \in Resources : HandlerStep(x) =>
          \A k \in Touched :
              IF k \in DOMAIN cronjobs
              THEN Owns(x, cronjobs[k])
              ELSE Owns(x, cronjobs'[k])]_vars

\* this step runs _validate_spec for x (on-create, or on-update after its
\* delete)
Validates(x) == create_backup_job(x) \/ update_backup_job_recreate(x)

C13_InvalidConfigNeverReturned ==
    /\ [][(configure \/ CallGetConfig) =>
             (raised' # NoError \/ validate(config') = NoError)]_vars
    /\ [][\A x \in Resources : HandlerStep(x) => validate(config) = NoError]_vars

\* argument tuples (name, namespace, schedule, database, storage, retention)
ManifestInputs ==
    {<<x.name, x.namespace, sch, sp["database"], sp["storage"], r>> :
        x \in Resources, sch \in {DefaultSchedule, "0 3 * * *"},
        sp \in {SpecOrders, SpecMongo}, r \in {0, 5}}

\* cronjob_manifest applied to an argument tuple
Manifest(i) == cronjob_manifest(i[1], i[2], i[3], i[4], i[5], i[6])

KeepLast(x) ==
    Get(Get(backups[x].spec, "retention", EmptyDict), "keepLast",
        config.backup.default_retention_days)

\* S is made of the n oldest objects of listing
Oldest(S, listing, n) ==
    /\ S \subseteq listing
    /\ Cardinality(S) = n
    /\ \A d \in S : \A k \in listing \ S : d < k

\* C15: retention bound. For every listing of length L and every keepLast N
\* the cleanup of the generated upload command selects exactly max(0, L - N)
\* objects, the oldest ones, and none when L <= N; and a run of the CronJob
\* built for a resource with keepLast N removes exactly that selection from
\* the listing that includes its own upload.
C15_RetentionBound ==
    /\ [](\A listing \in SUBSET (1..MaxStamp) : \A n \in 0..MaxKeep :
             LET sel == CleanupSelection(listing,
                            get_upload_command("backups", "prod", "orders-db", n))
                 l   == Cardinality(listing)
             IN  /\ Oldest(sel, listing, IF l > n THEN l - n ELSE 0)
                 /\ l <= n => sel = {})
    /\ [][\A x \in DOMAIN backups :
             (RunBackup(TimerKey(x))
                  /\ cronjobs[TimerKey(x)].spec.args.file \in UploadGlob) =>
                 LET target  == cronjobs[TimerKey(x)].spec.args.upload.target
                     listing == remote[target] \cup
                                    {IF remote[target] = {} THEN 1
                                     ELSE Max(remote[target]) + 1}
                     l       == Cardinality(listing)
                     n       == KeepLast(x)
                 IN  Oldest(listing \ remote'[target], listing,
                            IF l > n THEN l - n ELSE 0)]_vars

\* a run of the CronJob built with keepLast 2 has uploaded the object of the
\* last time and its cleanup has removed the oldest object
C15_Witness ==
    \E x \in DOMAIN backups :
        /\ TimerKey(x) \in DOMAIN cronjobs
        /\ KeepLast(x) = 2
        /\ LET target == cronjobs[TimerKey(x)].spec.args.upload.target
           IN  remote[target] = {MaxStamp - 1, MaxStamp}

\* the environment entries named var
EnvEntries(env, var) == {env[j] : j \in {i \in DOMAIN env : env[i].name = var}}

\* env has exactly one entry var, a reference to some secret's key k
RefersTo(env, var, k) ==
    /\ Cardinality(EnvEntries(env, var)) = 1
    /\ \A e \in EnvEntries(env, var) :
          "valueFrom" \in DOMAIN e /\ e.valueFrom.secretKeyRef.key = k

\* the asymmetry for an environment built for engine t
CredentialAsymmetry(t, env) ==
    /\ RefersTo(env, "DB_USER", "username")
    /\ RefersTo(env, "AWS_ACCESS_KEY_ID", "access-key")
    /\ RefersTo(env, "AWS_SECRET_ACCESS_KEY", "secret-key")
    /\ Cardinality(EnvEntries(env, "AWS_DEFAULT_REGION")) = 1
    /\ \A e \in EnvEntries(env, "AWS_DEFAULT_REGION") : "value" \in DOMAIN e
    /\ t \in {"postgres", "mysql"} =>
          RefersTo(env, "DB_PASSWORD", "password") /\ Len(env) = 5
    /\ t = "mongodb" => EnvEntries(env, "DB_PASSWORD") = {} /\ Len(env) = 4

\* C16: credential asymmetry. For every engine type the environment list has
\* a DB_PASSWORD reference exactly when the engine is postgres or mysql (5
\* entries) and none when it is mongodb (4 entries); the username, access-key,
\* secret-key references and the region literal are always present; and every
\* ScheduledJob a handler creates carries the environment of its spec's engine.
C16_CredentialAsymmetry ==
    /\ [](\A t \in SupportedDatabaseTypes :
             CredentialAsymmetry(t, get_container_env(t, "db-secret", "storage-secret",
                                                      "us-east-1")))
    /\ [][\A k \in DOMAIN cronjobs' \ DOMAIN cronjobs :
             \E x \in DOMAIN backups :
                 /\ Validates(x)
                 /\ CredentialAsymmetry(HandlerSpec(x)["database"]["type"],
                                        cronjobs'[k].spec.env)]_vars

\* on-update has replaced the CronJob of a mongodb spec, whose environment has
\* four entries and no password
C16_Witness ==
    \E x \in DOMAIN backups :
        /\ TimerKey(x) \in DOMAIN cronjobs
        /\ backups[x].spec["database"]["type"] = "mongodb"
        /\ handlers[x].msg = "Backup job updated successfully"
        /\ Len(cronjobs[TimerKey(x)].spec.env) = 4
        /\ EnvEntries(cronjobs[TimerKey(x)].spec.env, "DB_PASSWORD") = {}

\* C17: naming determinism across operations. For every BackupSpec X the
\* ScheduledJob that on-create and on-update create, the one on-update deletes,
\* the one the timer reads and the job name in on-create's return payload are
\* all X-backup in X's own namespace: a handler of X adds or removes no other
\* key, the object it stores carries that name and namespace, on-update's
\* delete call removes that key when it is there, on-create reports that name,
\* and a tick ends in Error exactly when that key cannot be read.
C17_NamingDeterminism ==
    /\ [][\A x \in DOMAIN backups : HandlerStep(x) =>
             /\ Touched \subseteq {TimerKey(x)}
             /\ \A k \in Touched \cap DOMAIN cronjobs' :
                   /\ cronjobs'[k].metadata.name = x.name \o "-backup"
                   /\ cronjobs'[k].metadata.namespace = x.namespace]_vars
    /\ [][\A x \in DOMAIN backups :
             (update_backup_job_delete(x) /\ ~apiDown
                 /\ TimerKey(x) \in DOMAIN cronjobs)
                 => TimerKey(x) \notin DOMAIN cronjobs']_vars
    /\ [][\A x \in DOMAIN backups :
             (create_backup_job(x) /\ handlers'[x].last = "ok")
                 => /\ handlers'[x].result.cronjob = x.name \o "-backup"
                    /\ TimerKey(x) \in DOMAIN cronjobs']_vars
    /\ [][\A x \in DOMAIN backups : check_backup_status(x) =>
             (Has(backups'[x].status, "phase", "Error")
                 <=> (apiDown \/ TimerKey(x) \notin DOMAIN cronjobs))]_vars

\* on-create reported orders-db-backup, on-update has since replaced the job
\* under that name and the timer has read it
C17_Witness ==
    \E x \in DOMAIN backups :
        /\ x.name = "orders-db"
        /\ <<x.namespace, "orders-db-backup">> \in DOMAIN cronjobs
        /\ handlers[x].msg = "Backup job updated successfully"
        /\ handlers[x].timer = "ok"
        /\ Has(backups[x].status, "phase", "Pending")
        /\ Cardinality(DOMAIN cronjobs) = 1

\* C18: on-update deletes before it validates. When on-update is invoked with
\* a spec that fails validation while X-backup exists, its delete call removes
\* the old ScheduledJob and the handler goes on; its validation then raises a
\* permanent error without creating anything, and kopf invokes no handler for
\* X again unless the spec has changed meanwhile; from then on, until a next
\* event for X, X owns no ScheduledJob.
C18_DeleteBeforeValidate ==
    /\ [][\A x \in DOMAIN backups :
             (update_backup_job_delete(x) /\ ~apiDown
                 /\ TimerKey(x) \in DOMAIN cronjobs
                 /\ ~SpecInvariant(backups[x].spec))
                 => /\ TimerKey(x) \notin DOMAIN cronjobs'
                    /\ x \in DOMAIN inflight'
                    /\ inflight'[x] = backups[x].spec]_vars
    /\ [][\A x \in DOMAIN inflight :
             (update_backup_job_recreate(x) /\ ~SpecInvariant(inflight[x]))
                 => /\ cronjobs' = cronjobs
                    /\ TimerKey(x) \notin DOMAIN cronjobs'
                    /\ handlers'[x].last = "PermanentError"
                    /\ handlers'[x].retry = 0
                    /\ handlers'[x].cause =
                           IF backups[x].deleting THEN "delete"
                           ELSE IF backups[x].spec # inflight[x] THEN "update"
                           ELSE "none"]_vars
    /\ [](\A x \in DOMAIN backups :
             (handlers[x].last = "PermanentError" /\ handlers[x].step = "validate"
                 /\ handlers[x].cause = "none")
                 => /\ OwnedKeys(x) = {}
                    /\ ~ENABLED HandlerStep(x))

\* on-update of a spec without a host has ended in a permanent error; the
\* CronJob that was scheduled before is gone and the status still shows it
C18_Witness ==
    \E x \in DOMAIN backups :
        /\ handlers[x].last = "PermanentError"
        /\ handlers[x].step = "validate"
        /\ handlers[x].msg = "Database host is required"
        /\ handlers[x].cause = "none"
        /\ backups[x].spec = SpecNoHost
        /\ TimerKey(x) \notin DOMAIN cronjobs
        /\ "lastBackup" \in DOMAIN backups[x].status

\* the secrets the entries of env named in names refer to
SecretsOf(env, names) ==
    {env[i].valueFrom.secretKeyRef.name :
        i \in {j \in DOMAIN env : env[j].name \in names}}

\* the secret a spec section names under key, or the default
SecretNamed(section, key, default) ==
    IF key \in DOMAIN section THEN section[key] ELSE default

\* a step in which the references of every ScheduledJob a handler creates
\* name the secrets the spec supplies under key, or the defaults derived from
\* the name
SecretsResolvedFrom(key) ==
      \A k \in DOMAIN cronjobs' \ DOMAIN cronjobs :
          \E x \in DOMAIN backups :
              /\ Validates(x)
              /\ SecretsOf(cronjobs'[k].spec.env, {"DB_USER", "DB_PASSWORD"}) =
                     {SecretNamed(HandlerSpec(x)["database"], key,
                                  x.name \o "-db-creds")}
              /\ SecretsOf(cronjobs'[k].spec.env,
                           {"AWS_ACCESS_KEY_ID", "AWS_SECRET_ACCESS_KEY"}) =
                     {SecretNamed(HandlerSpec(x)["storage"], key,
                                  x.name \o "-storage-creds")}

\* C19: credential secret resolution. The database references of the
\* generated ScheduledJob name database.credentialsSecretRef when the
\* BackupSpec supplies it and {name}-db-creds when it is absent; the storage
\* references name storage.credentialsSecretRef when supplied and
\* {name}-storage-creds when absent. Stated for the specs whose sections
\* carry the fields of the data model only (type, host, name, bucket, region,
\* credentialsSecretRef).
C19_SecretResolution ==
    [][(\A x \in DOMAIN backups :
            /\ "credentialsSecret" \notin DOMAIN HandlerSpec(x)["database"]
            /\ "credentialsSecret" \notin DOMAIN HandlerSpec(x)["storage"])
          => SecretsResolvedFrom("credentialsSecretRef")]_vars

\* statuses s and t agree on entry k: both lack it or both hold the same value
SameEntry(s, t, k) ==
    /\ k \in DOMAIN s <=> k \in DOMAIN t
    /\ k \in DOMAIN s => s[k] = t[k]

\* C20: lastBackup is never cleared. A timer tick that ends in phase Pending
\* or Error leaves lastBackup as it was, a tick that ends in Error also leaves
\* activeJobs as it was, and no step removes lastBackup from the status of a
\* BackupSpec that stays the same object.
C20_LastBackupNeverCleared ==
    /\ [][\A x \in DOMAIN backups : check_backup_status(x) =>
             LET old == backups[x].status
                 new == backups'[x].status
             IN  /\ (Has(new, "phase", "Pending") \/ Has(new, "phase", "Error"))
                        => SameEntry(old, new, "lastBackup")
                 /\ Has(new, "phase", "Error") => SameEntry(old, new, "activeJobs")]_vars
    /\ [][\A x \in DOMAIN backups \cap DOMAIN backups' :
             (backups'[x].uid = backups[x].uid
                 /\ "lastBackup" \in DOMAIN backups[x].status)
                 => "lastBackup" \in DOMAIN backups'[x].status]_vars

\* the status shows Pending together with the last-schedule time of the job
\* on-update has replaced, whose successor has not been scheduled yet
C20_Witness ==
    \E x \in DOMAIN backups :
        /\ TimerKey(x) \in DOMAIN cronjobs
        /\ cronjobs[TimerKey(x)].status.lastScheduleTime = NoTime
        /\ handlers[x].msg = "Backup job updated successfully"
        /\ Has(backups[x].status, "phase", "Pending")
        /\ Has(backups[x].status, "lastBackup", IsoFormat(1))
        /\ Has(backups[x].status, "activeJobs", 0)

\* C21: re-delivery of create is harmless to cluster state. When on-create is
\* invoked for X while a ScheduledJob named X-backup exists, the invocation
\* leaves every ScheduledJob as it was (the existing one is not modified and
\* none is added) and ends in a permanent error that is not retried; for a
\* valid spec and a reachable API the error is the 409 of the create call.
C21_RedeliveredCreate ==
    [][\A x \in DOMAIN backups :
          (create_backup_job(x) /\ TimerKey(x) \in DOMAIN cronjobs) =>
              /\ cronjobs' = cronjobs
              /\ handlers'[x].last = "PermanentError"
              /\ handlers'[x].retry = 0
              /\ handlers'[x].delay = 0
              /\ handlers'[x].cause # "create"
              /\ (SpecInvariant(backups[x].spec) /\ ~apiDown) =>
                     /\ handlers'[x].step = "create"
                     /\ handlers'[x].msg = "Cannot create CronJob: " \o ApiStr(409)]_vars

\* on-create has ended in the 409 of its create call, and the CronJob it
\* found under the name, created for an earlier object of that name, is
\* still there
C21_Witness ==
    \E x \in DOMAIN backups :
        /\ handlers[x].last = "PermanentError"
        /\ handlers[x].step = "create"
        /\ handlers[x].msg = "Cannot create CronJob: " \o ApiStr(409)
        /\ TimerKey(x) \in DOMAIN cronjobs
        /\ ~Owns(x, cronjobs[TimerKey(x)])
        /\ Cardinality(DOMAIN cronjobs) = 1

\* C22: set_config validates before it installs. A call of set_config with a
\* configuration that violates a bound raises the error of that bound and
\* leaves the global configuration exactly as it was, and a call of get_config
\* that finds a configuration installed returns it unchanged without raising:
\* the get_config that follows a refused set_config returns the configuration
\* installed before.
C22_SetConfigValidatesFirst ==
    /\ [][\A c \in ConfigValues :
             (CallSetConfig(c) /\ validate(c) # NoError) =>
                 /\ raised' = validate(c)
                 /\ raised' # NoError
                 /\ config' = config]_vars
    /\ [][(CallGetConfig /\ config # None) =>
             (config' = config /\ raised' = NoError)]_vars
    /\ [](raised = "Backup timeout must be at least 60 seconds"
             => config # [OperatorConfig EXCEPT !.backup.backup_timeout_seconds = 59])

\* set_config has installed version 0.2.0, and a later set_config with a
\* timeout of 59 seconds was refused and left it in place
C22_Witness ==
    /\ raised = "Backup timeout must be at least 60 seconds"
    /\ config # None
    /\ config.version = "0.2.0"
    /\ config.backup.backup_timeout_seconds = 7200

====
